---- MODULE Spec2Model ----
(***************************************************************************)
(* Model of the hipBLAS client test harnesses                              *)
(*   testing_axpy_batched   (src/clients/include/testing_axpy_batched.hpp) *)
(*   testing_syr2_batched   (src/unnamed/part_000, lines 41-200)           *)
(*   testing_dot_batched / testing_dotc_batched                            *)
(*                          (src/unnamed/part_000, lines 216-391)          *)
(*                                                                         *)
(* One run of one harness is one behaviour.  The values the harness copies *)
(* out of Arguments on entry are in arg; the option fields it reads later  *)
(* (unit_check, norm_check, timing, cold_iters, iters) are inputs of the   *)
(* step that reads them and are kept in opt from then on.  Every call into *)
(* the shim returns a status chosen from Statuses.  Vectors are modelled   *)
(* by their N logical elements (strides only determine the layout); the    *)
(* SYR2 matrix is modelled column-major with its leading dimension.        *)
(***************************************************************************)
EXTENDS Integers, Sequences, FiniteSets, TLC

VARIABLES harness, arg, opt, pc, handle, ptrmode, st, mem, iter, result, trace

vars == <<harness, arg, opt, pc, handle, ptrmode, st, mem, iter, result, trace>>

\* ------------------------------------------------------------ bounds
MaxN == 2
MaxBatch == 2
MaxCold == 1
MaxIters == 1

\* ------------------------------------------------------------ inputs
SUCCESS == "HIPBLAS_STATUS_SUCCESS"
INVALID_VALUE == "HIPBLAS_STATUS_INVALID_VALUE"
EXECUTION_FAILED == "HIPBLAS_STATUS_EXECUTION_FAILED"

\* statuses a call into the shim may return
Statuses == {SUCCESS, INVALID_VALUE, EXECUTION_FAILED}

IncValues == {-1, 0, 1}
Alphas == {1, 2}

\* ------------------------------------------------------------ events
\* one entry of the run's history.  kind: create, setmode, call, getstream,
\* h2d, d2h, cpu, unit_check, norm_check, expect, log_args, destroy
Ev(k, o, s, m, status, phase) ==
    [kind |-> k, obj |-> o, src |-> s, mode |-> m, status |-> status,
     phase |-> phase, api |-> "-", b |-> 0, ld |-> 0]

Api(fortran) == IF fortran THEN "FORTRAN" ELSE "C"

\* a call of the shim routine fn: ptr is where the scalar (or result) argument
\* lives, m the handle's pointer mode when the call is made
Call(fn, ptr, m, status, phase) ==
    [Ev("call", fn.name, ptr, m, status, phase) EXCEPT !.api = Api(fn.fortran)]

\* the CPU reference fn applied to batch index b
Cpu(fn, b) == [Ev("cpu", fn, "-", "-", "-", "check") EXCEPT !.b = b]

\* a comparison of buffer out against the reference buffer ref, both read
\* from memory m with leading dimension ld
Check(k, m, ref, out, ld) ==
    [Ev(k, out, ref, "-", IF m[ref] = m[out] THEN "match" ELSE "mismatch", "check")
       EXCEPT !.ld = ld]

Destroy(phase) == Ev("destroy", "handle", "-", "-", "-", phase)

\* abs_incx, abs_incy
Abs(i) == IF i < 0 THEN -i ELSE i

\* ------------------------------------------------------------ data
\* hipblas_init(hx, true): the seeded generator, one fixed data set
InitX(n, bc) == [b \in 1..bc |-> [i \in 1..n |-> b + i]]

\* hipblas_init(hy, false)
InitY(n, bc) == [b \in 1..bc |-> [i \in 1..n |-> 2 * b + i + 1]]

\* a freshly constructed batch vector
Fresh(n, bc) == [b \in 1..bc |-> [i \in 1..n |-> 0]]

\* cblas_axpy: y := alpha * x + y
AxpyOp(alpha, x, y) == [i \in DOMAIN y |-> alpha * x[i] + y[i]]

\* the batched routine: the operation applied to every batch index
AxpyBatchedOp(alpha, x, y) == [b \in DOMAIN y |-> AxpyOp(alpha, x[b], y[b])]

\* ------------------------------------------------------------ AXPY
\* lines 20-21
AxpyFn(fortran) == [name |-> "hipblasAxpyBatched", fortran |-> fortran]

\* variant of line 37: the increments tested as in testing_dot_batched
AxpyInvalid_Negative(a) == a.N < 0 \/ a.incx < 0 \/ a.incy < 0 \/ a.batch_count < 0

\* line 37
AxpyInvalid(a) == a.N < 0 \/ a.incx = 0 \/ a.incy = 0 \/ a.batch_count < 0

\* lines 35-44
AxpyArgCheck ==
    /\ harness = "axpy" /\ pc = "start"
    /\ IF AxpyInvalid(arg)
         THEN pc' = "done" /\ result' = INVALID_VALUE
         ELSE IF arg.batch_count = 0
                THEN pc' = "done" /\ result' = SUCCESS
                ELSE pc' = "setup" /\ UNCHANGED result
    /\ UNCHANGED <<harness, arg, opt, handle, ptrmode, st, mem, iter, trace>>

\* hipblasSetPointerMode: a failed call leaves the handle's mode as it was
SetPointerMode(m, s, phase) ==
    /\ ptrmode' = IF s = SUCCESS THEN m ELSE ptrmode
    /\ trace' = Append(trace, Ev("setmode", "handle", "-", m, s, phase))

\* the scalar the shim reads: the host value or the device copy
Scalar(loc) == IF loc = "host" THEN arg.alpha ELSE mem.d_alpha

\* lines 52-79: handle, buffers, initial data, host-to-device transfers
AxpySetup ==
    /\ harness = "axpy" /\ pc = "setup"
    /\ LET n == arg.N
           bc == arg.batch_count
           hx == InitX(n, bc)
           hy_host == InitY(n, bc)
           hy_device == hy_host
       IN mem' = [hx |-> hx, hy_host |-> hy_host, hy_device |-> hy_device,
                  hx_cpu |-> hx, hy_cpu |-> hy_host,
                  dx |-> hx, dy_host |-> hy_host, dy_device |-> hy_device,
                  d_alpha |-> arg.alpha]
    /\ handle' = "live"
    /\ ptrmode' = "host"
    /\ trace' = Append(trace, Ev("create", "handle", "-", "-", "-", "setup"))
    /\ pc' = "chk1"
    /\ UNCHANGED <<harness, arg, opt, st, iter, result>>

\* line 83
AxpySetModeDevice ==
    /\ harness = "axpy" /\ pc = "chk1"
    /\ \E s \in Statuses :
         /\ st' = [st EXCEPT ![1] = s]
         /\ SetPointerMode("device", s, "check")
    /\ pc' = "chk2"
    /\ UNCHANGED <<harness, arg, opt, handle, mem, iter, result>>

\* lines 84-85: d_alpha, dy_device
AxpyCallDevice ==
    /\ harness = "axpy" /\ pc = "chk2"
    /\ \E s \in Statuses :
         /\ st' = [st EXCEPT ![2] = s]
         /\ mem' = IF s = SUCCESS
                     THEN [mem EXCEPT !.dy_device =
                              AxpyBatchedOp(Scalar("device"), mem.dx, mem.dy_device)]
                     ELSE mem
         /\ trace' = Append(trace, Call(AxpyFn(arg.fortran), "device",
                                        ptrmode, s, "check"))
    /\ pc' = "chk3"
    /\ UNCHANGED <<harness, arg, opt, handle, ptrmode, iter, result>>

\* variant of line 87: device mode requested a second time
AxpySetModeHost_Stale ==
    /\ harness = "axpy" /\ pc = "chk3"
    /\ \E s \in Statuses :
         /\ st' = [st EXCEPT ![3] = s]
         /\ SetPointerMode("device", s, "check")
    /\ pc' = "chk4"
    /\ UNCHANGED <<harness, arg, opt, handle, mem, iter, result>>

\* line 87
AxpySetModeHost ==
    /\ harness = "axpy" /\ pc = "chk3"
    /\ \E s \in Statuses :
         /\ st' = [st EXCEPT ![3] = s]
         /\ SetPointerMode("host", s, "check")
    /\ pc' = "chk4"
    /\ UNCHANGED <<harness, arg, opt, handle, mem, iter, result>>

\* lines 88-89: &alpha, dy_host
AxpyCallHost ==
    /\ harness = "axpy" /\ pc = "chk4"
    /\ \E s \in Statuses :
         /\ st' = [st EXCEPT ![4] = s]
         /\ mem' = IF s = SUCCESS
                     THEN [mem EXCEPT !.dy_host =
                              AxpyBatchedOp(Scalar("host"), mem.dx, mem.dy_host)]
                     ELSE mem
         /\ trace' = Append(trace, Call(AxpyFn(arg.fortran), "host",
                                        ptrmode, s, "check"))
    /\ pc' = "chkif"
    /\ UNCHANGED <<harness, arg, opt, handle, ptrmode, iter, result>>

\* variant of lines 95-102: the chain of ifs in reverse order
FirstFailure_Last(s) ==
    IF s[4] # SUCCESS THEN s[4]
    ELSE IF s[3] # SUCCESS THEN s[3]
    ELSE IF s[2] # SUCCESS THEN s[2]
    ELSE s[1]

\* the chain of ifs at lines 95-102 (and 299-306)
FirstFailure(s) ==
    IF s[1] # SUCCESS THEN s[1]
    ELSE IF s[2] # SUCCESS THEN s[2]
    ELSE IF s[3] # SUCCESS THEN s[3]
    ELSE s[4]

AnyFailure(s) == \E k \in 1..4 : s[k] # SUCCESS

\* lines 91-103
AxpyStatusCheck ==
    /\ harness = "axpy" /\ pc = "chkif"
    /\ IF AnyFailure(st)
         THEN /\ handle' = "destroyed"
              /\ trace' = Append(trace, Destroy("check"))
              /\ result' = FirstFailure(st)
              /\ pc' = "done"
         ELSE /\ pc' = "xfer"
              /\ UNCHANGED <<handle, trace, result>>
    /\ UNCHANGED <<harness, arg, opt, ptrmode, st, mem, iter>>

\* lines 105-106
AxpyTransferBack ==
    /\ harness = "axpy" /\ pc = "xfer"
    /\ mem' = [mem EXCEPT !.hy_host = mem.dy_host, !.hy_device = mem.dy_device]
    /\ trace' = trace \o <<Ev("d2h", "hy_host", "dy_host", "-", "-", "check"),
                           Ev("d2h", "hy_device", "dy_device", "-", "-", "check")>>
    /\ pc' = "cmp"
    /\ UNCHANGED <<harness, arg, opt, handle, ptrmode, st, iter, result>>

\* the comparisons at lines 120-129 (and 151-162, 322-333), in order
\* ldu: the leading dimension passed to the two unit checks, ldn: to the norm checks
Checks(u, n, m, ref, host, device, ldu, ldn) ==
    (IF u THEN <<Check("unit_check", m, ref, host, ldu[1]),
                 Check("unit_check", m, ref, device, ldu[2])>>
          ELSE <<>>)
    \o (IF n THEN <<Check("norm_check", m, ref, host, ldn[1]),
                    Check("norm_check", m, ref, device, ldn[2])>>
             ELSE <<>>)

\* lines 108-131: CPU reference for every batch index, then the comparisons
AxpyCompare ==
    /\ harness = "axpy" /\ pc = "cmp"
    /\ \E u \in BOOLEAN, n \in BOOLEAN :
         /\ opt' = [unit_check |-> u, norm_check |-> n]
         /\ IF u \/ n
              THEN /\ mem' = [mem EXCEPT !.hy_cpu =
                                 AxpyBatchedOp(arg.alpha, mem.hx_cpu, mem.hy_cpu)]
                   /\ trace' = trace
                               \o [b \in 1..arg.batch_count |-> Cpu("cblas_axpy", b)]
                               \o Checks(u, n, mem', "hy_cpu", "hy_host", "hy_device",
                                         <<Abs(arg.incx), Abs(arg.incy)>>,
                                         <<Abs(arg.incy), Abs(arg.incy)>>)
              ELSE UNCHANGED <<mem, trace>>
    /\ pc' = "timing_if"
    /\ UNCHANGED <<harness, arg, handle, ptrmode, st, iter, result>>

\* variant of line 148: the cold iterations left out
Runs_NoWarmup(o) == o.iters

\* line 148 (and 172, 351)
Runs(o) == o.cold_iters + o.iters

\* lines 133-148, and 182-183 when timing is off
AxpyTimingSetup ==
    /\ harness = "axpy" /\ pc = "timing_if"
    /\ \E t \in BOOLEAN :
         IF ~t
           THEN /\ opt' = opt @@ [timing |-> FALSE]
                /\ handle' = "destroyed"
                /\ trace' = Append(trace, Destroy("end"))
                /\ result' = SUCCESS
                /\ pc' = "done"
                /\ UNCHANGED <<st, ptrmode, iter>>
           ELSE \E s1 \in Statuses, s2 \in Statuses :
                  /\ st' = [st EXCEPT ![1] = s1, ![2] = s2]
                  /\ ptrmode' = IF s2 = SUCCESS THEN "device" ELSE ptrmode
                  /\ IF s1 # SUCCESS \/ s2 # SUCCESS
                       THEN /\ opt' = opt @@ [timing |-> TRUE]
                            /\ handle' = "destroyed"
                            /\ trace' = trace
                                 \o <<Ev("getstream", "handle", "-", "-", s1, "timing"),
                                      Ev("setmode", "handle", "-", "device", s2, "timing"),
                                      Destroy("timing")>>
                            /\ result' = IF s1 # SUCCESS THEN s1 ELSE s2
                            /\ pc' = "done"
                            /\ UNCHANGED iter
                       ELSE \E c \in 0..MaxCold, i \in 0..MaxIters :
                              /\ opt' = opt @@ [timing |-> TRUE, cold_iters |-> c,
                                                iters |-> i]
                              /\ trace' = trace
                                   \o <<Ev("getstream", "handle", "-", "-", s1, "timing"),
                                        Ev("setmode", "handle", "-", "device", s2, "timing")>>
                              /\ iter' = 0
                              /\ pc' = "loop"
                              /\ UNCHANGED <<handle, result>>
    /\ UNCHANGED <<harness, arg, mem>>

\* lines 149-168: one iteration of the timing loop
AxpyTimingIter ==
    /\ harness = "axpy" /\ pc = "loop"
    /\ iter < Runs(opt)
    /\ \E s \in Statuses :
         /\ st' = [st EXCEPT ![1] = s]
         /\ mem' = IF s = SUCCESS
                     THEN [mem EXCEPT !.dy_device =
                              AxpyBatchedOp(Scalar("device"), mem.dx, mem.dy_device)]
                     ELSE mem
         /\ IF s # SUCCESS
              THEN /\ handle' = "destroyed"
                   /\ trace' = trace \o <<Call(AxpyFn(arg.fortran), "device",
                                               ptrmode, s, "timing"),
                                          Destroy("timing")>>
                   /\ result' = s
                   /\ pc' = "done"
                   /\ UNCHANGED iter
              ELSE /\ trace' = Append(trace, Call(AxpyFn(arg.fortran), "device",
                                                  ptrmode, s, "timing"))
                   /\ iter' = iter + 1
                   /\ UNCHANGED <<handle, result, pc>>
    /\ UNCHANGED <<harness, arg, opt, ptrmode>>

\* lines 169-183
AxpyTimingEnd ==
    /\ harness = "axpy" /\ pc = "loop"
    /\ iter >= Runs(opt)
    /\ handle' = "destroyed"
    /\ trace' = trace \o <<Ev("log_args", "-", "-", "-", "-", "timing"), Destroy("end")>>
    /\ result' = SUCCESS
    /\ pc' = "done"
    /\ UNCHANGED <<harness, arg, opt, ptrmode, st, mem, iter>>

\* ------------------------------------------------------------ DOT / DOTC
IsDot == harness \in {"dot", "dotc"}

\* complex numbers are pairs <<re, im>>
CAdd(a, b) == <<a[1] + b[1], a[2] + b[2]>>
CMul(a, b) == <<a[1] * b[1] - a[2] * b[2], a[1] * b[2] + a[2] * b[1]>>
CConj(a) == <<a[1], -a[2]>>

\* hipblas_init_alternating_sign(hx, true)
InitDotX(n, bc) ==
    [b \in 1..bc |-> [i \in 1..n |-> <<IF i % 2 = 1 THEN i + b ELSE -(i + b), b>>]]

\* hipblas_init(hy, false)
InitDotY(n, bc) == [b \in 1..bc |-> [i \in 1..n |-> <<2 * b + i + 1, i>>]]

FreshResult(bc) == [b \in 1..bc |-> <<0, 0>>]

RECURSIVE DotSum(_, _, _, _)
DotSum(conj, x, y, n) ==
    IF n = 0 THEN <<0, 0>>
    ELSE CAdd(DotSum(conj, x, y, n - 1),
              CMul(IF conj THEN CConj(x[n]) ELSE x[n], y[n]))

\* cblas_dot / cblas_dotc: sum of x[i] * y[i], x conjugated for dotc
DotOp(conj, x, y) == DotSum(conj, x, y, Len(x))

\* which routines conjugate their first vector
Conjugating(name) == name \in {"hipblasDotcBatched", "cblas_dotc"}

\* the routine named name applied to every batch index
DotBatchedOp(name, x, y) == [b \in DOMAIN x |-> DotOp(Conjugating(name), x[b], y[b])]

\* lines 220-222
DotFn(fortran, conj) ==
    [name |-> IF conj THEN "hipblasDotcBatched" ELSE "hipblasDotBatched",
     fortran |-> fortran]

\* variant of line 319: the reference not switched on CONJ
DotCpuFn_Plain(conj) == "cblas_dot"

\* line 319
DotCpuFn(conj) == IF conj THEN "cblas_dotc" ELSE "cblas_dot"

\* lines 387-391: testing_dotc_batched is testing_dot_batched<T, true>
DotcEntry ==
    /\ harness = "dotc" /\ pc = "dotc_entry"
    /\ arg' = [arg EXCEPT !.conj = TRUE]
    /\ pc' = "start"
    /\ UNCHANGED <<harness, opt, handle, ptrmode, st, mem, iter, result, trace>>

\* variant of line 236: the increments tested as in testing_axpy_batched
DotInvalid_Zero(a) == a.N < 0 \/ a.incx = 0 \/ a.incy = 0 \/ a.batch_count < 0

\* line 236
DotInvalid(a) == a.N < 0 \/ a.incx < 0 \/ a.incy < 0 \/ a.batch_count < 0

\* lines 234-243
DotArgCheck ==
    /\ IsDot /\ pc = "start"
    /\ IF DotInvalid(arg)
         THEN pc' = "done" /\ result' = INVALID_VALUE
         ELSE IF arg.batch_count = 0
                THEN pc' = "done" /\ result' = SUCCESS
                ELSE pc' = "setup" /\ UNCHANGED result
    /\ UNCHANGED <<harness, arg, opt, handle, ptrmode, st, mem, iter, trace>>

\* lines 250-269
DotSetup ==
    /\ IsDot /\ pc = "setup"
    /\ LET n == arg.N
           bc == arg.batch_count
           hx == InitDotX(n, bc)
           hy == InitDotY(n, bc)
       IN mem' = [hx |-> hx, hy |-> hy, dx |-> hx, dy |-> hy,
                  h_cpu_result |-> FreshResult(bc),
                  h_hipblas_result1 |-> FreshResult(bc),
                  h_hipblas_result2 |-> FreshResult(bc),
                  d_hipblas_result |-> FreshResult(bc)]
    /\ handle' = "live"
    /\ ptrmode' = "host"
    /\ trace' = Append(trace, Ev("create", "handle", "-", "-", "-", "setup"))
    /\ pc' = "chk1"
    /\ UNCHANGED <<harness, arg, opt, st, iter, result>>

\* line 275
DotSetModeDevice ==
    /\ IsDot /\ pc = "chk1"
    /\ \E s \in Statuses :
         /\ st' = [st EXCEPT ![1] = s]
         /\ SetPointerMode("device", s, "check")
    /\ pc' = "chk2"
    /\ UNCHANGED <<harness, arg, opt, handle, mem, iter, result>>

\* lines 276-283: result into d_hipblas_result
DotCallDevice ==
    /\ IsDot /\ pc = "chk2"
    /\ \E s \in Statuses :
         /\ st' = [st EXCEPT ![2] = s]
         /\ mem' = IF s = SUCCESS
                     THEN [mem EXCEPT !.d_hipblas_result =
                              DotBatchedOp(DotFn(arg.fortran, arg.conj).name,
                                           mem.dx, mem.dy)]
                     ELSE mem
         /\ trace' = Append(trace, Call(DotFn(arg.fortran, arg.conj), "device",
                                        ptrmode, s, "check"))
    /\ pc' = "chk3"
    /\ UNCHANGED <<harness, arg, opt, handle, ptrmode, iter, result>>

\* line 285
DotSetModeHost ==
    /\ IsDot /\ pc = "chk3"
    /\ \E s \in Statuses :
         /\ st' = [st EXCEPT ![3] = s]
         /\ SetPointerMode("host", s, "check")
    /\ pc' = "chk4"
    /\ UNCHANGED <<harness, arg, opt, handle, mem, iter, result>>

\* lines 286-293: result into h_hipblas_result1
DotCallHost ==
    /\ IsDot /\ pc = "chk4"
    /\ \E s \in Statuses :
         /\ st' = [st EXCEPT ![4] = s]
         /\ mem' = IF s = SUCCESS
                     THEN [mem EXCEPT !.h_hipblas_result1 =
                              DotBatchedOp(DotFn(arg.fortran, arg.conj).name,
                                           mem.dx, mem.dy)]
                     ELSE mem
         /\ trace' = Append(trace, Call(DotFn(arg.fortran, arg.conj), "host",
                                        ptrmode, s, "check"))
    /\ pc' = "chkif"
    /\ UNCHANGED <<harness, arg, opt, handle, ptrmode, iter, result>>

\* lines 295-307
DotStatusCheck ==
    /\ IsDot /\ pc = "chkif"
    /\ IF AnyFailure(st)
         THEN /\ handle' = "destroyed"
              /\ trace' = Append(trace, Destroy("check"))
              /\ result' = FirstFailure(st)
              /\ pc' = "done"
         ELSE /\ pc' = "xfer"
              /\ UNCHANGED <<handle, trace, result>>
    /\ UNCHANGED <<harness, arg, opt, ptrmode, st, mem, iter>>

\* lines 309-310
DotTransferBack ==
    /\ IsDot /\ pc = "xfer"
    /\ mem' = [mem EXCEPT !.h_hipblas_result2 = mem.d_hipblas_result]
    /\ trace' = Append(trace, Ev("d2h", "h_hipblas_result2", "d_hipblas_result",
                                 "-", "-", "check"))
    /\ pc' = "cmp"
    /\ UNCHANGED <<harness, arg, opt, handle, ptrmode, st, iter, result>>

\* lines 312-335
DotCompare ==
    /\ IsDot /\ pc = "cmp"
    /\ \E u \in BOOLEAN, n \in BOOLEAN :
         /\ opt' = [unit_check |-> u, norm_check |-> n]
         /\ IF u \/ n
              THEN /\ mem' = [mem EXCEPT !.h_cpu_result =
                                 DotBatchedOp(DotCpuFn(arg.conj), mem.hx, mem.hy)]
                   /\ trace' = trace
                               \o [b \in 1..arg.batch_count |-> Cpu(DotCpuFn(arg.conj), b)]
                               \o Checks(u, n, mem', "h_cpu_result",
                                         "h_hipblas_result1", "h_hipblas_result2",
                                         <<1, 1>>, <<1, 1>>)
              ELSE UNCHANGED <<mem, trace>>
    /\ pc' = "timing_if"
    /\ UNCHANGED <<harness, arg, handle, ptrmode, st, iter, result>>

\* lines 337-351, and 383-384 when timing is off
DotTimingSetup ==
    /\ IsDot /\ pc = "timing_if"
    /\ \E t \in BOOLEAN :
         IF ~t
           THEN /\ opt' = opt @@ [timing |-> FALSE]
                /\ handle' = "destroyed"
                /\ trace' = Append(trace, Destroy("end"))
                /\ result' = SUCCESS
                /\ pc' = "done"
                /\ UNCHANGED <<st, ptrmode, iter>>
           ELSE \E s1 \in Statuses, s2 \in Statuses :
                  /\ st' = [st EXCEPT ![1] = s1, ![2] = s2]
                  /\ ptrmode' = IF s2 = SUCCESS THEN "device" ELSE ptrmode
                  /\ IF s1 # SUCCESS \/ s2 # SUCCESS
                       THEN /\ opt' = opt @@ [timing |-> TRUE]
                            /\ handle' = "destroyed"
                            /\ trace' = trace
                                 \o <<Ev("getstream", "handle", "-", "-", s1, "timing"),
                                      Ev("setmode", "handle", "-", "device", s2, "timing"),
                                      Destroy("timing")>>
                            /\ result' = IF s1 # SUCCESS THEN s1 ELSE s2
                            /\ pc' = "done"
                            /\ UNCHANGED iter
                       ELSE \E c \in 0..MaxCold, i \in 0..MaxIters :
                              /\ opt' = opt @@ [timing |-> TRUE, cold_iters |-> c,
                                                iters |-> i]
                              /\ trace' = trace
                                   \o <<Ev("getstream", "handle", "-", "-", s1, "timing"),
                                        Ev("setmode", "handle", "-", "device", s2, "timing")>>
                              /\ iter' = 0
                              /\ pc' = "loop"
                              /\ UNCHANGED <<handle, result>>
    /\ UNCHANGED <<harness, arg, mem>>

\* lines 352-371: one iteration of the timing loop
DotTimingIter ==
    /\ IsDot /\ pc = "loop"
    /\ iter < Runs(opt)
    /\ \E s \in Statuses :
         /\ st' = [st EXCEPT ![1] = s]
         /\ mem' = IF s = SUCCESS
                     THEN [mem EXCEPT !.d_hipblas_result =
                              DotBatchedOp(DotFn(arg.fortran, arg.conj).name,
                                           mem.dx, mem.dy)]
                     ELSE mem
         /\ IF s # SUCCESS
              THEN /\ handle' = "destroyed"
                   /\ trace' = trace \o <<Call(DotFn(arg.fortran, arg.conj), "device",
                                               ptrmode, s, "timing"),
                                          Destroy("timing")>>
                   /\ result' = s
                   /\ pc' = "done"
                   /\ UNCHANGED iter
              ELSE /\ trace' = Append(trace, Call(DotFn(arg.fortran, arg.conj), "device",
                                                  ptrmode, s, "timing"))
                   /\ iter' = iter + 1
                   /\ UNCHANGED <<handle, result, pc>>
    /\ UNCHANGED <<harness, arg, opt, ptrmode>>

\* lines 372-384
DotTimingEnd ==
    /\ IsDot /\ pc = "loop"
    /\ iter >= Runs(opt)
    /\ handle' = "destroyed"
    /\ trace' = trace \o <<Ev("log_args", "-", "-", "-", "-", "timing"), Destroy("end")>>
    /\ result' = SUCCESS
    /\ pc' = "done"
    /\ UNCHANGED <<harness, arg, opt, ptrmode, st, mem, iter>>

\* ------------------------------------------------------------ SYR2
\* lines 45-46
Syr2Fn(fortran) == [name |-> "hipblasSyr2Batched", fortran |-> fortran]

\* hipblas_init_vector(hA, ...): batch_count matrices of lda * N elements
InitA(size, bc) == [b \in 1..bc |-> [k \in 1..size |-> b + k]]

\* cblas_syr2: A := A + alpha * (x y^T + y x^T) on the uplo triangle of the
\* column-major N x N matrix with leading dimension lda
Syr2Op(uplo, n, alpha, x, y, A, lda) ==
    [k \in DOMAIN A |->
        LET j == ((k - 1) \div lda) + 1
            i == ((k - 1) % lda) + 1
        IN IF i <= n /\ (IF uplo = "U" THEN i <= j ELSE i >= j)
             THEN A[k] + alpha * (x[i] * y[j] + y[i] * x[j])
             ELSE A[k]]

Syr2BatchedOp(uplo, n, alpha, x, y, A, lda) ==
    [b \in DOMAIN A |-> Syr2Op(uplo, n, alpha, x[b], y[b], A[b], lda)]

\* variant of line 65: without the lda < 1 test
Syr2InvalidSize_NoLda1(a) ==
    a.N < 0 \/ a.incx = 0 \/ a.incy = 0 \/ a.lda < a.N \/ a.batch_count < 0

\* line 65
Syr2InvalidSize(a) ==
    a.N < 0 \/ a.incx = 0 \/ a.incy = 0 \/ a.lda < a.N \/ a.lda < 1 \/ a.batch_count < 0

\* line 66
Syr2QuickReturn(a) == Syr2InvalidSize(a) \/ a.N = 0 \/ a.batch_count = 0

\* line 71
Syr2Expected(a) == IF Syr2InvalidSize(a) THEN INVALID_VALUE ELSE SUCCESS

\* CHECK_HIPBLAS_ERROR on a non-success status: the test is abandoned
Syr2Fail(evs, phase) ==
    /\ handle' = "destroyed"
    /\ trace' = trace \o evs \o <<Destroy(phase)>>
    /\ result' = "failed"
    /\ pc' = "done"

\* lines 61-73: the handle, then the quick return with null data pointers
Syr2ArgCheck ==
    /\ harness = "syr2" /\ pc = "start"
    /\ IF Syr2QuickReturn(arg)
         THEN \E actual \in Statuses :
                /\ trace' = trace
                     \o <<Ev("create", "handle", "-", "-", "-", "setup"),
                          Call(Syr2Fn(arg.fortran), "null", "host", actual, "quick"),
                          Ev("expect", "-", Syr2Expected(arg), "-", actual, "quick"),
                          Destroy("quick")>>
                /\ handle' = "destroyed"
                /\ result' = "returned"
                /\ pc' = "done"
         ELSE /\ trace' = Append(trace, Ev("create", "handle", "-", "-", "-", "setup"))
              /\ handle' = "live"
              /\ pc' = "setup"
              /\ UNCHANGED result
    /\ UNCHANGED <<harness, arg, opt, ptrmode, st, mem, iter>>

\* lines 75-105: buffers, initial data, transfers, and the check flags
Syr2Setup ==
    /\ harness = "syr2" /\ pc = "setup"
    /\ LET n == arg.N
           bc == arg.batch_count
           hA == InitA(arg.lda * n, bc)
           hx == InitX(n, bc)
           hy == InitY(n, bc)
       IN mem' = [hA |-> hA, hA_cpu |-> hA,
                  hA_host |-> Fresh(arg.lda * n, bc),
                  hA_device |-> Fresh(arg.lda * n, bc),
                  hx |-> hx, hy |-> hy,
                  dA |-> hA, dx |-> hx, dy |-> hy, d_alpha |-> arg.alpha]
    /\ \E u \in BOOLEAN, n \in BOOLEAN :
         /\ opt' = [unit_check |-> u, norm_check |-> n]
         /\ pc' = IF u \/ n THEN "chk1" ELSE "timing_if"
    /\ UNCHANGED <<harness, arg, handle, ptrmode, st, iter, result, trace>>

\* line 110
Syr2SetModeHost ==
    /\ harness = "syr2" /\ pc = "chk1"
    /\ \E s \in Statuses :
         IF s = SUCCESS
           THEN /\ SetPointerMode("host", s, "check")
                /\ pc' = "chk2"
                /\ UNCHANGED <<handle, result>>
           ELSE /\ Syr2Fail(<<Ev("setmode", "handle", "-", "host", s, "check")>>, "check")
                /\ UNCHANGED ptrmode
    /\ UNCHANGED <<harness, arg, opt, st, mem, iter>>

\* lines 111-121: &h_alpha, dA
Syr2CallHost ==
    /\ harness = "syr2" /\ pc = "chk2"
    /\ \E s \in Statuses :
         IF s = SUCCESS
           THEN /\ mem' = [mem EXCEPT !.dA =
                              Syr2BatchedOp(arg.uplo, arg.N, Scalar("host"),
                                            mem.dx, mem.dy, mem.dA, arg.lda)]
                /\ trace' = Append(trace, Call(Syr2Fn(arg.fortran), "host",
                                               ptrmode, s, "check"))
                /\ pc' = "save"
                /\ UNCHANGED <<handle, result>>
           ELSE /\ Syr2Fail(<<Call(Syr2Fn(arg.fortran), "host", ptrmode, s, "check")>>,
                            "check")
                /\ UNCHANGED mem
    /\ UNCHANGED <<harness, arg, opt, ptrmode, st, iter>>

\* variant of lines 123-124: dA not restored from hA
Syr2SaveRestore_NoRestore ==
    /\ harness = "syr2" /\ pc = "save"
    /\ mem' = [mem EXCEPT !.hA_host = mem.dA]
    /\ trace' = trace \o <<Ev("d2h", "hA_host", "dA", "-", "-", "check")>>
    /\ pc' = "chk3"
    /\ UNCHANGED <<harness, arg, opt, handle, ptrmode, st, iter, result>>

\* lines 123-124: keep the host-mode result, restore dA from hA
Syr2SaveRestore ==
    /\ harness = "syr2" /\ pc = "save"
    /\ mem' = [mem EXCEPT !.hA_host = mem.dA, !.dA = mem.hA]
    /\ trace' = trace \o <<Ev("d2h", "hA_host", "dA", "-", "-", "check"),
                           Ev("h2d", "dA", "hA", "-", "-", "check")>>
    /\ pc' = "chk3"
    /\ UNCHANGED <<harness, arg, opt, handle, ptrmode, st, iter, result>>

\* line 126
Syr2SetModeDevice ==
    /\ harness = "syr2" /\ pc = "chk3"
    /\ \E s \in Statuses :
         IF s = SUCCESS
           THEN /\ SetPointerMode("device", s, "check")
                /\ pc' = "chk4"
                /\ UNCHANGED <<handle, result>>
           ELSE /\ Syr2Fail(<<Ev("setmode", "handle", "-", "device", s, "check")>>,
                            "check")
                /\ UNCHANGED ptrmode
    /\ UNCHANGED <<harness, arg, opt, st, mem, iter>>

\* lines 127-137: d_alpha, dA
Syr2CallDevice ==
    /\ harness = "syr2" /\ pc = "chk4"
    /\ \E s \in Statuses :
         IF s = SUCCESS
           THEN /\ mem' = [mem EXCEPT !.dA =
                              Syr2BatchedOp(arg.uplo, arg.N, Scalar("device"),
                                            mem.dx, mem.dy, mem.dA, arg.lda)]
                /\ trace' = Append(trace, Call(Syr2Fn(arg.fortran), "device",
                                               ptrmode, s, "check"))
                /\ pc' = "cmp"
                /\ UNCHANGED <<handle, result>>
           ELSE /\ Syr2Fail(<<Call(Syr2Fn(arg.fortran), "device", ptrmode, s, "check")>>,
                            "check")
                /\ UNCHANGED mem
    /\ UNCHANGED <<harness, arg, opt, ptrmode, st, iter>>

\* lines 139-163: device-mode result to the host, CPU reference, comparisons
Syr2Compare ==
    /\ harness = "syr2" /\ pc = "cmp"
    /\ mem' = [mem EXCEPT !.hA_device = mem.dA,
                          !.hA_cpu = Syr2BatchedOp(arg.uplo, arg.N, arg.alpha,
                                                   mem.hx, mem.hy, mem.hA_cpu, arg.lda)]
    /\ trace' = trace
                \o <<Ev("d2h", "hA_device", "dA", "-", "-", "check")>>
                \o [b \in 1..arg.batch_count |-> Cpu("cblas_syr2", b)]
                \o Checks(opt.unit_check, opt.norm_check, mem', "hA_cpu", "hA_host",
                          "hA_device", <<arg.lda, arg.lda>>, <<arg.lda, arg.lda>>)
    /\ pc' = "timing_if"
    /\ UNCHANGED <<harness, arg, opt, handle, ptrmode, st, iter, result>>

\* lines 165-172, and the return at line 200 when timing is off
Syr2TimingSetup ==
    /\ harness = "syr2" /\ pc = "timing_if"
    /\ \E t \in BOOLEAN :
         IF ~t
           THEN /\ opt' = opt @@ [timing |-> FALSE]
                /\ handle' = "destroyed"
                /\ trace' = Append(trace, Destroy("end"))
                /\ result' = "returned"
                /\ pc' = "done"
                /\ UNCHANGED <<mem, ptrmode, iter>>
           ELSE /\ mem' = [mem EXCEPT !.dA = mem.hA]
                /\ \E s1 \in Statuses :
                     IF s1 # SUCCESS
                       THEN /\ opt' = opt @@ [timing |-> TRUE]
                            /\ Syr2Fail(<<Ev("h2d", "dA", "hA", "-", "-", "timing"),
                                          Ev("getstream", "handle", "-", "-", s1, "timing")>>,
                                        "timing")
                            /\ UNCHANGED <<ptrmode, iter>>
                       ELSE \E s2 \in Statuses :
                              IF s2 # SUCCESS
                                THEN /\ opt' = opt @@ [timing |-> TRUE]
                                     /\ Syr2Fail(
                                          <<Ev("h2d", "dA", "hA", "-", "-", "timing"),
                                            Ev("getstream", "handle", "-", "-", s1, "timing"),
                                            Ev("setmode", "handle", "-", "device", s2,
                                               "timing")>>, "timing")
                                     /\ UNCHANGED <<ptrmode, iter>>
                                ELSE \E c \in 0..MaxCold, i \in 0..MaxIters :
                                       /\ opt' = opt @@ [timing |-> TRUE, cold_iters |-> c,
                                                         iters |-> i]
                                       /\ ptrmode' = "device"
                                       /\ trace' = trace
                                            \o <<Ev("h2d", "dA", "hA", "-", "-", "timing"),
                                                 Ev("getstream", "handle", "-", "-", s1,
                                                    "timing"),
                                                 Ev("setmode", "handle", "-", "device", s2,
                                                    "timing")>>
                                       /\ iter' = 0
                                       /\ pc' = "loop"
                                       /\ UNCHANGED <<handle, result>>
    /\ UNCHANGED <<harness, arg, st>>

\* lines 173-189: one iteration of the timing loop
Syr2TimingIter ==
    /\ harness = "syr2" /\ pc = "loop"
    /\ iter < Runs(opt)
    /\ \E s \in Statuses :
         IF s = SUCCESS
           THEN /\ mem' = [mem EXCEPT !.dA =
                              Syr2BatchedOp(arg.uplo, arg.N, Scalar("device"),
                                            mem.dx, mem.dy, mem.dA, arg.lda)]
                /\ trace' = Append(trace, Call(Syr2Fn(arg.fortran), "device",
                                               ptrmode, s, "timing"))
                /\ iter' = iter + 1
                /\ UNCHANGED <<handle, result, pc>>
           ELSE /\ Syr2Fail(<<Call(Syr2Fn(arg.fortran), "device", ptrmode, s, "timing")>>,
                            "timing")
                /\ UNCHANGED <<mem, iter>>
    /\ UNCHANGED <<harness, arg, opt, ptrmode, st>>

\* lines 190-200
Syr2TimingEnd ==
    /\ harness = "syr2" /\ pc = "loop"
    /\ iter >= Runs(opt)
    /\ handle' = "destroyed"
    /\ trace' = trace \o <<Ev("log_args", "-", "-", "-", "-", "timing"), Destroy("end")>>
    /\ result' = "returned"
    /\ pc' = "done"
    /\ UNCHANGED <<harness, arg, opt, ptrmode, st, mem, iter>>

\* ------------------------------------------------------------ HIP errors
\* the steps wrapped in CHECK_HIP_ERROR: allocation checks and transfers
HipChecked == {"setup", "xfer", "save", "cmp", "timing_if"}

\* CHECK_HIP_ERROR on a failed HIP call ends the run on the spot
HipError ==
    /\ pc \in HipChecked
    /\ harness = "syr2" \/ pc \in {"setup", "xfer"}
    /\ pc' = "exit"
    /\ opt' = IF pc = "timing_if" THEN opt @@ [timing |-> TRUE] ELSE opt
    /\ UNCHANGED <<harness, arg, handle, ptrmode, st, mem, iter, result, trace>>

\* ------------------------------------------------------------ runs
\* the values a harness copies out of Arguments on entry
ArgsOf(h) ==
    [N : -1..MaxN, incx : IncValues, incy : IncValues,
     lda : IF h = "syr2" THEN 0..MaxN ELSE {1},
     batch_count : -1..MaxBatch,
     fortran : BOOLEAN,
     conj : IF h = "dot" THEN BOOLEAN ELSE {FALSE},
     uplo : IF h = "syr2" THEN {"U", "L"} ELSE {"U"},
     alpha : IF h = "dot" \/ h = "dotc" THEN {1} ELSE Alphas]

Init ==
    /\ harness \in {"axpy", "dot", "dotc", "syr2"}
    /\ arg \in ArgsOf(harness)
    /\ opt = <<>>
    /\ pc = IF harness = "dotc" THEN "dotc_entry" ELSE "start"
    /\ handle = "none"
    /\ ptrmode = "host"
    /\ st = [k \in 1..4 |-> SUCCESS]
    /\ mem = <<>>
    /\ iter = 0
    /\ result = "none"
    /\ trace = <<>>

Next ==
    \/ AxpyArgCheck
    \/ AxpySetup
    \/ AxpySetModeDevice
    \/ AxpyCallDevice
    \/ AxpySetModeHost
    \/ AxpyCallHost
    \/ AxpyStatusCheck
    \/ AxpyTransferBack
    \/ AxpyCompare
    \/ AxpyTimingSetup
    \/ AxpyTimingIter
    \/ AxpyTimingEnd
    \/ DotcEntry
    \/ DotArgCheck
    \/ DotSetup
    \/ DotSetModeDevice
    \/ DotCallDevice
    \/ DotSetModeHost
    \/ DotCallHost
    \/ DotStatusCheck
    \/ DotTransferBack
    \/ DotCompare
    \/ DotTimingSetup
    \/ DotTimingIter
    \/ DotTimingEnd
    \/ Syr2ArgCheck
    \/ Syr2Setup
    \/ Syr2SetModeHost
    \/ Syr2CallHost
    \/ Syr2SaveRestore
    \/ Syr2SetModeDevice
    \/ Syr2CallDevice
    \/ Syr2Compare
    \/ Syr2TimingSetup
    \/ Syr2TimingIter
    \/ Syr2TimingEnd
    \/ HipError

Spec == Init /\ [][Next]_vars

\* ------------------------------------------------------------ properties
\* an option field once the harness has read it
Opt(f, default) == IF f \in DOMAIN opt THEN opt[f] ELSE default

\* positions in the history
Calls(phase) == {i \in DOMAIN trace : trace[i].kind = "call" /\ trace[i].phase = phase}
Of(kinds) == {i \in DOMAIN trace : trace[i].kind \in kinds}

\* the comparison has been made
Compared == Of({"unit_check", "norm_check"}) # {}

\* the buffers handed to the comparisons
RefBuf == IF harness = "axpy" THEN "hy_cpu"
          ELSE IF harness = "syr2" THEN "hA_cpu" ELSE "h_cpu_result"
HostBuf == IF harness = "axpy" THEN "hy_host"
           ELSE IF harness = "syr2" THEN "hA_host" ELSE "h_hipblas_result1"
DeviceBuf == IF harness = "axpy" THEN "hy_device"
             ELSE IF harness = "syr2" THEN "hA_device" ELSE "h_hipblas_result2"

\* C1: once a harness has compared, its check phase consists of exactly one
\* shim call made under device pointer mode with the scalar/result argument
\* in device memory and exactly one made under host pointer mode with it in
\* host memory, each directly preceded by a successful hipblasSetPointerMode
\* to that mode, and both results have been compared with the CPU reference.
C1_BothModesOnce ==
    Compared =>
      /\ Cardinality({i \in Calls("check") :
                        trace[i].mode = "device" /\ trace[i].src = "device"}) = 1
      /\ Cardinality({i \in Calls("check") :
                        trace[i].mode = "host" /\ trace[i].src = "host"}) = 1
      /\ Cardinality(Calls("check")) = 2
      /\ \A i \in Calls("check") :
           /\ trace[i].status = SUCCESS
           /\ i > 1
           /\ trace[i - 1].kind = "setmode"
           /\ trace[i - 1].mode = trace[i].mode
           /\ trace[i - 1].status = SUCCESS
      /\ \A buf \in {HostBuf, DeviceBuf} :
           \E i \in Of({"unit_check", "norm_check"}) :
             trace[i].obj = buf /\ trace[i].src = RefBuf
      /\ pc = "timing_if" => Calls("timing") = {}

C1_Witness ==
    /\ Compared
    /\ pc = "timing_if"
    /\ harness = "syr2"
    /\ arg.batch_count = 2

\* the check phase's calls into the shim, in the order they were made
CheckApi == {i \in Of({"setmode", "call"}) : trace[i].phase = "check"}
CheckFailed == {i \in CheckApi : trace[i].status # SUCCESS}

\* C2: when testing_axpy_batched or testing_dot_batched has returned and one
\* of the four check-phase calls failed, all four calls were issued (set
\* device mode, call, set host mode, call), the result is the status of the
\* earliest failed one, and there was no result transfer, CPU reference,
\* comparison or timing.
C2_EarliestFailure ==
    (harness \in {"axpy", "dot", "dotc"} /\ pc = "done" /\ CheckFailed # {}) =>
      /\ Cardinality(CheckApi) = 4
      /\ \E i \in CheckApi :
           /\ CheckApi = i..(i + 3)
           /\ trace[i].kind = "setmode" /\ trace[i].mode = "device"
           /\ trace[i + 1].kind = "call" /\ trace[i + 1].src = "device"
           /\ trace[i + 2].kind = "setmode" /\ trace[i + 2].mode = "host"
           /\ trace[i + 3].kind = "call" /\ trace[i + 3].src = "host"
      /\ \E i \in CheckFailed :
           /\ \A j \in CheckFailed : i <= j
           /\ result = trace[i].status
      /\ Of({"d2h", "cpu", "unit_check", "norm_check", "getstream", "log_args"}) = {}
      /\ Calls("timing") = {}
      /\ opt = <<>>

C2_Witness ==
    /\ harness = "dot" /\ pc = "done"
    /\ Cardinality(CheckFailed) >= 2
    /\ \E i \in CheckFailed, j \in CheckFailed :
         i < j /\ trace[i].kind = "call" /\ trace[i].status # trace[j].status

\* C3: testing_axpy_batched returns HIPBLAS_STATUS_INVALID_VALUE when N < 0,
\* incx = 0, incy = 0 or batch_count < 0, otherwise HIPBLAS_STATUS_SUCCESS
\* when batch_count = 0, in both cases with no handle, no buffer and no shim
\* call; any other arguments (negative increments included) get past the
\* argument check.
C3_AxpyArgs ==
    (harness = "axpy" /\ pc # "start") =>
      LET invalid == arg.N < 0 \/ arg.incx = 0 \/ arg.incy = 0 \/ arg.batch_count < 0
          early == pc = "done" /\ handle = "none" /\ mem = <<>> /\ trace = <<>>
      IN /\ invalid => early /\ result = INVALID_VALUE
         /\ (~invalid /\ arg.batch_count = 0) => early /\ result = SUCCESS
         /\ (~invalid /\ arg.batch_count # 0) => ~early

C3_Witness ==
    /\ harness = "axpy" /\ pc = "done"
    /\ arg.incx = 0 /\ arg.batch_count = 0 /\ arg.N >= 0 /\ arg.incy = -1
    /\ result = INVALID_VALUE

\* C4: testing_dot_batched and testing_dotc_batched return
\* HIPBLAS_STATUS_INVALID_VALUE when N < 0, incx < 0, incy < 0 or
\* batch_count < 0, otherwise HIPBLAS_STATUS_SUCCESS when batch_count = 0, in
\* both cases with no handle, no buffer and no shim call; any other arguments
\* (zero increments included) get past the argument check.
C4_DotArgs ==
    (IsDot /\ pc \notin {"start", "dotc_entry"}) =>
      LET invalid == arg.N < 0 \/ arg.incx < 0 \/ arg.incy < 0 \/ arg.batch_count < 0
          early == pc = "done" /\ handle = "none" /\ mem = <<>> /\ trace = <<>>
      IN /\ invalid => early /\ result = INVALID_VALUE
         /\ (~invalid /\ arg.batch_count = 0) => early /\ result = SUCCESS
         /\ (~invalid /\ arg.batch_count # 0) => ~early

C4_Witness ==
    /\ harness = "dotc" /\ handle = "live"
    /\ arg.incx = 0 /\ arg.incy = 0 /\ arg.N = 2

\* C5: testing_syr2_batched takes its quick return exactly when N < 0,
\* incx = 0, incy = 0, lda < N, lda < 1, batch_count < 0, N = 0 or
\* batch_count = 0; there it calls the shim once with null data pointers,
\* expects HIPBLAS_STATUS_INVALID_VALUE if one of the size conditions holds
\* and HIPBLAS_STATUS_SUCCESS otherwise, and returns without buffers,
\* comparison or timing.
C5_Syr2QuickReturn ==
    (harness = "syr2" /\ pc # "start") =>
      LET size == \/ arg.N < 0 \/ arg.incx = 0 \/ arg.incy = 0
                  \/ arg.lda < arg.N \/ arg.lda < 1 \/ arg.batch_count < 0
          quick == size \/ arg.N = 0 \/ arg.batch_count = 0
      IN /\ quick <=> Calls("quick") # {}
         /\ quick =>
              /\ pc = "done"
              /\ Cardinality(Of({"call"})) = 1
              /\ \A i \in Of({"call"}) : trace[i].src = "null"
              /\ Cardinality(Of({"expect"})) = 1
              /\ \A i \in Of({"expect"}) :
                   /\ trace[i].src = IF size THEN INVALID_VALUE ELSE SUCCESS
                   /\ i > 1 /\ trace[i - 1].kind = "call"
                   /\ trace[i].status = trace[i - 1].status
              /\ mem = <<>>
              /\ opt = <<>>
              /\ Of({"unit_check", "norm_check", "cpu", "getstream", "log_args"}) = {}

C5_Witness ==
    /\ harness = "syr2" /\ pc = "done"
    /\ arg.N = 0 /\ arg.lda = 0 /\ arg.batch_count = 0 /\ arg.incx = 1 /\ arg.incy = 1
    /\ \E i \in Of({"expect"}) : trace[i].src = INVALID_VALUE

\* C6: in testing_dot_batched the shim routine and the CPU reference agree
\* on conjugation for every FORTRAN / CONJ combination: hipblasDotcBatched
\* with cblas_dotc when CONJ, hipblasDotBatched with cblas_dot otherwise, the
\* FORTRAN flag choosing only the API variant; testing_dotc_batched runs
\* with CONJ true.  What they compute then agrees at the comparison.
C6_ConjugationAgrees ==
    IsDot =>
      /\ \A i \in Of({"call"}) :
           /\ trace[i].obj = IF arg.conj THEN "hipblasDotcBatched" ELSE "hipblasDotBatched"
           /\ trace[i].api = IF arg.fortran THEN "FORTRAN" ELSE "C"
      /\ \A i \in Of({"cpu"}) :
           trace[i].obj = IF arg.conj THEN "cblas_dotc" ELSE "cblas_dot"
      /\ \A i \in Of({"unit_check", "norm_check"}) : trace[i].status = "match"
      /\ (harness = "dotc" /\ pc # "dotc_entry") => arg.conj

C6_Witness ==
    /\ harness = "dotc" /\ Compared
    /\ arg.fortran /\ arg.N = 2 /\ arg.batch_count = 2
    /\ mem.h_cpu_result # DotBatchedOp("cblas_dot", mem.hx, mem.hy)

\* the routine applied once to the initial data, for every batch index
OnceApplied ==
    IF harness = "axpy"
      THEN AxpyBatchedOp(arg.alpha, InitX(arg.N, arg.batch_count),
                         InitY(arg.N, arg.batch_count))
    ELSE IF harness = "syr2"
      THEN Syr2BatchedOp(arg.uplo, arg.N, arg.alpha, InitX(arg.N, arg.batch_count),
                         InitY(arg.N, arg.batch_count),
                         InitA(arg.lda * arg.N, arg.batch_count), arg.lda)
    ELSE [b \in 1..arg.batch_count |->
            DotOp(arg.conj, InitDotX(arg.N, arg.batch_count)[b],
                  InitDotY(arg.N, arg.batch_count)[b])]

\* C7: at the comparison the host-mode result, the device-mode result and
\* the CPU reference each hold, for every batch index, the routine applied
\* exactly once to the same initial data; the CPU reference ran once per
\* batch index.
C7_OneApplication ==
    Compared =>
      /\ DOMAIN mem[RefBuf] = 1..arg.batch_count
      /\ mem[HostBuf] = OnceApplied
      /\ mem[DeviceBuf] = OnceApplied
      /\ mem[RefBuf] = OnceApplied
      /\ \A b \in 1..arg.batch_count :
           Cardinality({i \in Of({"cpu"}) : trace[i].b = b}) = 1
      /\ Cardinality(Of({"cpu"})) = arg.batch_count

C7_Witness ==
    /\ harness = "syr2" /\ Compared /\ pc = "timing_if"
    /\ arg.N = 2 /\ arg.batch_count = 2 /\ arg.alpha = 2
    /\ mem.hA_device # mem.hA

\* C8: a run with timing on that ends without a failure has made exactly
\* cold_iters + iters shim calls in the timing loop, each under device pointer
\* mode with the device scalar/result argument; in testing_axpy_batched and
\* testing_dot_batched a failed call in the loop is the last call and its
\* status is the result.
C8_TimingLoop ==
    /\ (pc = "done" /\ Opt("timing", FALSE) /\ result \in {SUCCESS, "returned"}) =>
         /\ "cold_iters" \in DOMAIN opt
         /\ Cardinality(Calls("timing")) = opt.cold_iters + opt.iters
    /\ \A i \in Calls("timing") :
         /\ trace[i].mode = "device" /\ trace[i].src = "device"
         /\ (trace[i].status # SUCCESS /\ harness # "syr2") =>
              /\ pc = "done"
              /\ result = trace[i].status
              /\ \A j \in Calls("timing") : j <= i

C8_Witness ==
    /\ pc = "done" /\ Opt("timing", FALSE) /\ result = SUCCESS
    /\ harness = "axpy"
    /\ Opt("cold_iters", 0) = 1 /\ Opt("iters", 0) = 1
    /\ Cardinality(Calls("timing")) = 2

====
